---- MODULE Spec2Model ----
(***************************************************************************)
(* Release workflow of script/release/release.py: the four actions start,  *)
(* resume, cancel and finalize, the bump-commit step, the CI gate          *)
(* (monitor_pr_status), the release draft and the image build, run one at  *)
(* a time by main() against the hosted state (branch, pull request,        *)
(* release record, artifact repository, images) of one release version.    *)
(***************************************************************************)
EXTENDS Integers, Sequences, FiniteSets, TLC

\* ------------------------------------------------------------- bounds
MaxChecks == 2      \* status checks reported for a commit
MaxCommits == 2     \* bump commits on the release branch
MaxPolls == 2       \* polls of one CI gate run
MaxPrompts == 2     \* times the diff is shown in one confirmation loop
MaxPRs == 2         \* open pull requests counted (saturating)
MaxReleases == 2    \* release records kept (saturating)
MaxCopies == 2      \* copies of one asset counted (saturating)
MaxEvents == 2      \* build events consumed from one logstream

VARIABLES
    world,      \* branch, working tree, pull requests, releases, repository, images
    ci,         \* the statuses of the checks of the PR's last commit
    action,     \* args.action of the running process, "none" when no process runs
    pc,         \* position of the running process
    outcome,    \* what the action returned: 0 or 1, -1 while it has returned nothing
    error,      \* the error raised in this run, "none" when none
    calls,      \* the collaborator operations invoked in this run, in order
    pre,        \* world when the process started
    status,     \* monitor_pr_status: the combined status read by the last poll
    polls,      \* monitor_pr_status: polls made in this run
    diffShown,  \* create_bump_commit: times the diff was printed in the running loop
    proceed,    \* resume: the answer to the overwrite question, "unasked" before
    files,      \* the artifact set download_all returned in this run
    ghRelease,  \* gh_release: index in world.releases, 0 when unset
    stable,     \* the last process was a successful resume, nothing changed since
    failedStart, \* the last process was a start that created the branch and failed
    environ,    \* os.environ of the running process: the tokens that are set
    answered,   \* what the operator last answered to 'Are these changes ok?'
    diffRead,   \* what repository.diff() returned when the commit was decided
    chunk,      \* the build event the loop over logstream holds, if any
    consumed    \* how many events of the current logstream were consumed

vars == <<world, ci, action, pc, outcome, error, calls, pre, status, polls,
          diffShown, proceed, files, ghRelease, stable, failedStart, environ, answered, diffRead, chunk, consumed>>

gateVars == <<status, polls>>
buildVars == <<chunk, consumed>>

runVars == <<status, polls, diffShown, proceed, files, ghRelease>>

\* ------------------------------------------------------------- data
\* The expected platform keys of the artifact retriever.
Keys == {"docker-compose-Linux-x86_64", "docker-compose-Darwin-x86_64"}

NoAssets == [k \in Keys |-> 0]

Min(a, b) == IF a < b THEN a ELSE b

\* upload_assets: one more copy of every uploaded file on the release.
Uploaded(assets, ks) ==
    [k \in Keys |-> IF k \in ks THEN Min(assets[k] + 1, MaxCopies) ELSE assets[k]]

\* The asset list that holds exactly one copy of each file of an artifact set.
AssetsOf(ks) == [k \in Keys |-> IF k \in ks THEN 1 ELSE 0]

CheckStates == {"pending", "success", "failure"}

SeqsUpTo(S, n) == UNION {[1..m -> S] : m \in 0..n}

CIStatuses == SeqsUpTo(CheckStates, MaxChecks)

Answers == {"y", "Y", "n", ""}

\* str.lower() on the answers.
Lower(s) == IF s = "Y" THEN "y" ELSE s

\* The fields of a decoded build event: an output line, an error, or neither.
Chunks == {{"stream"}, {"error"}, {"aux"}}

NoChunk == {}

NoStatus == [state |-> "none", statuses |-> <<>>, total_count |-> 0]

EmptyWorld ==
    [localBranch |-> FALSE, remoteBranch |-> FALSE, headBumped |-> FALSE,
     commits |-> 0, pushed |-> 0, edits |-> FALSE, openPRs |-> 0,
     releases |-> <<>>, bintrayRepo |-> FALSE, images |-> {}]

Init ==
    /\ world = EmptyWorld
    /\ ci \in CIStatuses
    /\ action = "none"
    /\ pc = "idle"
    /\ outcome = -1
    /\ error = "none"
    /\ calls = <<>>
    /\ pre = EmptyWorld
    /\ status = NoStatus
    /\ polls = 0
    /\ diffShown = 0
    /\ proceed = "unasked"
    /\ files = {}
    /\ ghRelease = 0
    /\ stable = FALSE
    /\ failedStart = FALSE
    /\ environ = {}
    /\ answered = "unasked"
    /\ diffRead = "unread"
    /\ chunk = NoChunk
    /\ consumed = 0

\* ------------------------------------------------------------- failure
ExceptPcSwallowed(next) == next

\* except ScriptError as e: print(e); return 1 -- the position after a raise.
ExceptPc(next) == "done"

\* A step raises ScriptError with message msg; next is where the step would go on.
Raise(msg, next) ==
    /\ error' = msg
    /\ pc' = ExceptPc(next)
    /\ outcome' = IF ExceptPc(next) = "done" THEN 1 ELSE outcome

Proceed(next) ==
    /\ pc' = next
    /\ UNCHANGED <<outcome, error>>

\* A collaborator operation op invoked at position here: it takes effect and the
\* process goes on at next, or it raises a workflow error and changes nothing.
Collab(here, op, next, newWorld) ==
    /\ pc = here
    /\ calls' = Append(calls, op)
    /\ \/ /\ world' = newWorld
          /\ Proceed(next)
       \/ /\ world' = world
          /\ Raise("collaborator", next)

\* ------------------------------------------------------------- main
FirstPc(act) ==
    CASE act = "start" -> "s_branch"
      [] act = "resume" -> "r_exists"
      [] act = "cancel" -> "c_pr"
      [] act = "finalize" -> "f_raise"

Actions == {"start", "cancel", "resume", "finalize"}

Tokens == {"GITHUB_TOKEN", "BINTRAY_TOKEN"}

TokensPresentGithubOnly(env) == "GITHUB_TOKEN" \in env

\* if 'GITHUB_TOKEN' not in os.environ: ...; if 'BINTRAY_TOKEN' not in os.environ: ...
TokensPresent(env) == "GITHUB_TOKEN" \in env /\ "BINTRAY_TOKEN" \in env

\* main(): the two tokens are checked, then the action is dispatched.
Invoke ==
    /\ pc = "idle"
    /\ \E act \in Actions, env \in SUBSET Tokens :
        /\ action' = act
        /\ environ' = env
        /\ pre' = world
        /\ IF TokensPresent(env)
           THEN /\ pc' = FirstPc(act)
                /\ UNCHANGED <<outcome, error>>
           ELSE /\ pc' = "done"
                /\ outcome' = 1
                /\ error' = "token"
    /\ UNCHANGED <<world, ci, calls, runVars, stable, failedStart, answered, diffRead, buildVars>>

\* The process exits; the next one starts from fresh local state.
Exit ==
    /\ pc = "done"
    /\ pc' = "idle"
    /\ action' = "none"
    /\ outcome' = -1
    /\ error' = "none"
    /\ calls' = <<>>
    /\ pre' = EmptyWorld
    /\ status' = NoStatus
    /\ polls' = 0
    /\ diffShown' = 0
    /\ proceed' = "unasked"
    /\ files' = {}
    /\ ghRelease' = 0
    /\ stable' = (action = "resume" /\ outcome = 0)
    /\ failedStart' = (action = "start" /\ outcome = 1 /\ world.localBranch
                                        /\ ~pre.localBranch)
    /\ environ' = {}
    /\ answered' = "unasked"
    /\ diffRead' = "unread"
    /\ chunk' = NoChunk
    /\ consumed' = 0
    /\ UNCHANGED <<world, ci>>

\* ------------------------------------------------------------- cancel
CancelNextKeepsRelease(here) ==
    CASE here = "c_pr" -> "c_branch"
      [] here = "c_rel" -> "c_branch"
      [] here = "c_branch" -> "end"

\* cancel: close_release_pr, then remove_release, then remove_bump_branch.
CancelNext(here) ==
    CASE here = "c_pr" -> "c_rel"
      [] here = "c_rel" -> "c_branch"
      [] here = "c_branch" -> "end"

CancelClosePR ==
    /\ Collab("c_pr", "close_release_pr", CancelNext("c_pr"),
              [world EXCEPT !.openPRs = 0])
    /\ UNCHANGED <<ci, action, pre, runVars, stable, failedStart, environ, answered, diffRead, buildVars>>

CancelRemoveRelease ==
    /\ Collab("c_rel", "remove_release", CancelNext("c_rel"),
              [world EXCEPT !.releases = <<>>])
    /\ UNCHANGED <<ci, action, pre, runVars, stable, failedStart, environ, answered, diffRead, buildVars>>

BranchRemoved(w) ==
    [w EXCEPT !.localBranch = FALSE, !.remoteBranch = FALSE, !.headBumped = FALSE,
              !.commits = 0, !.pushed = 0]

CancelCleanupDeletesRepository(w) == [BranchRemoved(w) EXCEPT !.bintrayRepo = FALSE]

\* repository.remove_bump_branch(args.release); the deletion of the bintray
\* repository that follows it in the source is commented out.
CancelCleanup(w) == BranchRemoved(w)

CancelRemoveBranch ==
    /\ Collab("c_branch", "remove_bump_branch", CancelNext("c_branch"),
              CancelCleanup(world))
    /\ UNCHANGED <<ci, action, pre, runVars, stable, failedStart, environ, answered, diffRead, buildVars>>

\* Every step is done: print_final_instructions(args) or 'Release cancellation
\* complete.', then return 0.
ReturnSuccess ==
    /\ pc = "end"
    /\ pc' = "done"
    /\ outcome' = 0
    /\ UNCHANGED <<world, ci, action, error, calls, pre, runVars, stable, failedStart, environ, answered, diffRead, buildVars>>

\* ------------------------------------------------------------- finalize
\* raise NotImplementedError(): not a ScriptError, so the handler does not catch
\* it; the exception leaves finalize and main, and the action returns nothing.
Finalize ==
    /\ pc = "f_raise"
    /\ pc' = "done"
    /\ error' = "not_implemented"
    /\ UNCHANGED <<world, ci, action, outcome, calls, pre, runVars, stable, failedStart, environ, answered, diffRead, buildVars>>

\* ------------------------------------------------------------- bump commit
\* repository.diff(): the working tree differs from the branch head. It is read
\* after the version files were updated, so it is non-empty until the head holds
\* the version bump, and whenever the operator has uncommitted edits.
Diff(w) == w.edits \/ ~w.headBumped

\* Where start and resume go on after create_bump_commit.
AfterBump(act) == IF act = "start" THEN "pr_create" ELSE "r_findpr"

\* update_run_sh_version(release); update_init_py_version(release)
BumpUpdateVersion ==
    /\ Collab("b_update", "update_version", "b_notes", world)
    /\ UNCHANGED <<ci, action, pre, runVars, stable, failedStart, environ, answered, diffRead, buildVars>>

\* input('Please add the release notes to the CHANGELOG.md file, ...'): the
\* operator edits the working tree, or has nothing to add.
BumpReleaseNotes ==
    /\ pc = "b_notes"
    /\ pc' = "b_confirm"
    /\ \/ /\ world.commits < MaxCommits
          /\ world' = [world EXCEPT !.edits = TRUE]
          /\ stable' = FALSE
       \/ UNCHANGED <<world, stable>>
    /\ UNCHANGED <<ci, action, outcome, error, calls, pre, runVars, failedStart, environ, answered, diffRead, buildVars>>

DiffAcceptedWhateverTheAnswer(answer) == TRUE

ShouldCommitAlways(w) == TRUE

\* while proceed.lower() != 'y': the loop is left on this answer.
DiffAccepted(answer) == Lower(answer) = "y"

\* print(repository.diff()); proceed = input('Are these changes ok? y/N ')
BumpConfirm ==
    /\ pc = "b_confirm"
    /\ \E answer \in Answers :
        /\ DiffAccepted(answer) \/ diffShown + 1 < MaxPrompts
        /\ diffShown' = IF DiffAccepted(answer) THEN 0 ELSE diffShown + 1
        /\ pc' = IF DiffAccepted(answer) THEN "b_commit" ELSE "b_confirm"
        /\ answered' = IF answer \in {"y", "Y"} THEN "yes" ELSE "no"
    /\ UNCHANGED <<world, ci, action, outcome, error, calls, pre, gateVars,
                   proceed, files, ghRelease, stable, failedStart, environ, diffRead, buildVars>>

\* if repository.diff(): -- whether a bump commit is created.
ShouldCommit(w) == Diff(w)

Committed(w) ==
    [w EXCEPT !.commits = Min(w.commits + 1, MaxCommits), !.headBumped = TRUE,
              !.edits = FALSE]

AfterCommitCheckPushesOnlyCommits(committed) ==
    IF committed THEN "b_push" ELSE "b_bintray"

\* repository.push_branch_to_remote(release_branch) follows the if, whether or
\* not a commit was created.
AfterCommitCheck(committed) == "b_push"

\* if repository.diff(): repository.create_bump_commit(release_branch, release)
BumpCommit ==
    /\ diffRead' = IF Diff(world) THEN "changes" ELSE "empty"
    /\ \/ /\ ShouldCommit(world)
          /\ Collab("b_commit", "create_bump_commit", AfterCommitCheck(TRUE),
                    Committed(world))
          /\ UNCHANGED <<ci, action, pre, runVars, stable, failedStart, environ, answered, buildVars>>
       \/ /\ ~ShouldCommit(world)
          /\ pc = "b_commit"
          /\ pc' = AfterCommitCheck(FALSE)
          /\ UNCHANGED <<world, ci, action, outcome, error, calls, pre, runVars, stable,
                         failedStart, environ, answered, buildVars>>

Pushed(w) == [w EXCEPT !.remoteBranch = TRUE, !.pushed = w.commits]

\* repository.push_branch_to_remote(release_branch): a new head commit on the
\* remote starts with the statuses its CI reports, whatever they are.
BumpPush ==
    /\ Collab("b_push", "push_branch_to_remote", "b_bintray", Pushed(world))
    /\ IF world'.remoteBranch /\ (~world.remoteBranch \/ world'.pushed # world.pushed)
       THEN ci' \in CIStatuses
       ELSE ci' = ci
    /\ UNCHANGED <<action, pre, runVars, stable, failedStart, environ, answered, diffRead, buildVars>>

\* bintray_api.create_repository(BINTRAY_ORG, release_branch.name, 'generic')
BumpCreateRepository ==
    /\ Collab("b_bintray", "create_repository", AfterBump(action),
              [world EXCEPT !.bintrayRepo = TRUE])
    /\ UNCHANGED <<ci, action, pre, runVars, stable, failedStart, environ, answered, diffRead, buildVars>>

\* ------------------------------------------------------------- start
\* repository.create_release_branch(release, base): refuses an existing branch.
StartCreateBranch ==
    /\ pc = "s_branch"
    /\ calls' = Append(calls, "create_release_branch")
    /\ \/ /\ ~world.localBranch
          /\ world' = [world EXCEPT !.localBranch = TRUE, !.headBumped = FALSE,
                                    !.commits = 0]
          /\ Proceed("b_update")
       \/ /\ world' = world
          /\ Raise("collaborator", "b_update")
    /\ UNCHANGED <<ci, action, pre, runVars, stable, failedStart, environ, answered, diffRead, buildVars>>

AfterPullRequestSkipsGate == "download"

\* check_pr_mergeable(pr_data); monitor_pr_status(pr_data): the gate follows the
\* pull request.
AfterPullRequest == "g_poll"

\* repository.create_release_pull_request(release); check_pr_mergeable(pr_data)
\* only prints a warning.
CreatePullRequest ==
    /\ Collab("pr_create", "create_release_pull_request", AfterPullRequest,
              [world EXCEPT !.openPRs = Min(world.openPRs + 1, MaxPRs)])
    /\ UNCHANGED <<ci, action, pre, runVars, stable, failedStart, environ, answered, diffRead, buildVars>>

\* ------------------------------------------------------------- CI gate
\* The combined state the hosting service reports for the statuses of a commit:
\* failure when a check failed, else pending while a check is pending, else
\* success; for a commit without checks it reports pending or success.
AggregateStates(statuses) ==
    IF \E i \in 1..Len(statuses) : statuses[i] = "failure" THEN {"failure"}
    ELSE IF \E i \in 1..Len(statuses) : statuses[i] = "pending" THEN {"pending"}
    ELSE IF Len(statuses) = 0 THEN {"pending", "success"}
    ELSE {"success"}

GateDecisionPendingReturns(st) ==
    IF st.state = "pending" \/ st.state = "success" THEN "return" ELSE "raise"

GateDecisionWaitsForPending(st) ==
    IF \E i \in 1..Len(st.statuses) : st.statuses[i] = "pending" THEN "sleep"
    ELSE IF st.state = "failure" THEN "raise" ELSE "return"

GateDecisionNoZeroCase(st) ==
    IF st.state = "pending" THEN "sleep"
    ELSE IF st.state = "success" THEN "return" ELSE "raise"

GateDecisionGivesUp(st) ==
    IF st.state = "pending"
    THEN IF st.total_count = 0 THEN "return" ELSE "raise"
    ELSE IF st.state = "success" THEN "return" ELSE "raise"

\* monitor_pr_status, one turn of the loop on the status just read.
GateDecision(st) ==
    IF st.state = "pending"
    THEN IF st.total_count = 0 THEN "return" ELSE "sleep"
    ELSE IF st.state = "success" THEN "return" ELSE "raise"

\* status = last_commit.get_combined_status() and the branch taken on it.
GatePoll ==
    /\ pc = "g_poll"
    /\ calls' = Append(calls, "get_combined_status")
    /\ polls' = polls + 1
    /\ \E s \in AggregateStates(ci) :
        status' = [state |-> s, statuses |-> ci, total_count |-> Len(ci)]
    /\ \/ /\ GateDecision(status') = "return"
          /\ Proceed("download")
       \/ /\ GateDecision(status') = "sleep"
          /\ Proceed("g_sleep")
       \/ /\ GateDecision(status') = "raise"
          /\ Raise("ci_failure", "download")
    /\ UNCHANGED <<world, ci, action, pre, diffShown, proceed, files, ghRelease, stable, failedStart, environ, answered, diffRead, buildVars>>

\* time.sleep(30): the checks go on meanwhile.
GateSleep ==
    /\ pc = "g_sleep"
    /\ polls < MaxPolls
    /\ pc' = "g_poll"
    /\ ci' \in CIStatuses
    /\ stable' = (stable /\ ci' = ci)
    /\ UNCHANGED <<world, action, outcome, error, calls, pre, runVars, failedStart, environ, answered, diffRead, buildVars>>

\* ------------------------------------------------------------- release
AfterDownload(act) == IF act = "start" THEN "render" ELSE "r_findrel"

\* files = downloader.download_all(args.release): every expected key, or an error.
Download ==
    /\ Collab("download", "download_all", AfterDownload(action), world)
    /\ files' = IF error' = "none" THEN Keys ELSE files
    /\ UNCHANGED <<ci, action, pre, gateVars, diffShown, proceed, ghRelease, stable, failedStart, environ, answered, diffRead, buildVars>>

\* create_release_draft: the release notes are rendered from the template.
RenderReleaseNotes ==
    /\ Collab("render", "render_release_notes", "create_release", world)
    /\ UNCHANGED <<ci, action, pre, runVars, stable, failedStart, environ, answered, diffRead, buildVars>>

NewDraft == [draft |-> TRUE, assets |-> NoAssets]

WithRelease(w, r) ==
    IF Len(w.releases) < MaxReleases
    THEN [w EXCEPT !.releases = Append(w.releases, r)]
    ELSE w

\* start uploads to the new draft; resume first deletes the assets of gh_release.
AfterCreate(act) == IF act = "start" THEN "upload" ELSE "r_delete"

\* gh_release = repository.create_release(version, release_notes, draft=True, ...)
CreateRelease ==
    /\ Collab("create_release", "create_release", AfterCreate(action),
              WithRelease(world, NewDraft))
    /\ ghRelease' = IF error' = "none" THEN Len(world'.releases) ELSE ghRelease
    /\ UNCHANGED <<ci, action, pre, gateVars, diffShown, proceed, files, stable, failedStart, environ, answered, diffRead, buildVars>>

SetAssets(w, i, a) == [w EXCEPT !.releases[i].assets = a]

\* upload_assets(gh_release, files): every file is attached; an upload that
\* fails has attached some of the files, not all.
UploadAssets ==
    /\ pc = "upload"
    /\ calls' = Append(calls, "upload_assets")
    /\ \/ /\ world' = SetAssets(world, ghRelease,
                                Uploaded(world.releases[ghRelease].assets, files))
          /\ Proceed("i_sha")
       \/ /\ \E part \in (SUBSET files) \ {files} :
                world' = SetAssets(world, ghRelease,
                                   Uploaded(world.releases[ghRelease].assets, part))
          /\ Raise("collaborator", "i_sha")
    /\ UNCHANGED <<ci, action, pre, runVars, stable, failedStart, environ, answered, diffRead, buildVars>>

\* ------------------------------------------------------------- images
BuildWriteSha ==
    /\ Collab("i_sha", "write_git_sha", "i_compose", world)
    /\ UNCHANGED <<ci, action, pre, runVars, stable, failedStart, environ, answered, diffRead, buildVars>>

ChunkIsFatalNever(c) == FALSE

\* if 'error' in chunk: raise ScriptError('Build error: ...')
ChunkIsFatal(c) == "error" \in c

\* for chunk in logstream: one event is consumed, an error event raises; or the
\* stream is at its end, the image is built and the step after the loop follows.
BuildLoop(here, op, next, built) ==
    /\ pc = here
    /\ calls' = IF consumed = 0 THEN Append(calls, op) ELSE calls
    /\ \/ /\ consumed < MaxEvents
          /\ consumed' = consumed + 1
          /\ chunk' \in Chunks
          /\ world' = world
          /\ IF ChunkIsFatal(chunk')
             THEN Raise("build_error", here)
             ELSE Proceed(here)
       \/ /\ consumed' = 0
          /\ chunk' = NoChunk
          /\ world' = [world EXCEPT !.images = @ \cup built]
          /\ Proceed(next)

\* docker_client.build(tag='docker/compose:<version>') and the loop on its events.
BuildComposeImage ==
    /\ BuildLoop("i_compose", "build_compose", "i_tests", {"docker/compose"})
    /\ UNCHANGED <<ci, action, pre, runVars, stable, failedStart, environ, answered, diffRead>>

\* docker_client.build(tag='docker-compose-tests:tmp') and the loop on its events.
BuildTestsImage ==
    /\ BuildLoop("i_tests", "build_tests", "i_tag", {})
    /\ UNCHANGED <<ci, action, pre, runVars, stable, failedStart, environ, answered, diffRead>>

\* create_container, commit, tag 'docker/compose-tests:<version>', remove.
BuildTagTests ==
    /\ pc = "i_tag"
    /\ calls' = Append(calls, "tag_tests")
    /\ world' = [world EXCEPT !.images = @ \cup {"docker/compose-tests"}]
    /\ Proceed("end")
    /\ UNCHANGED <<ci, action, pre, runVars, stable, failedStart, environ, answered, diffRead, buildVars>>

\* ------------------------------------------------------------- resume
BranchFoundUnchecked(exists) == TRUE

\* if not repository.branch_exists(br_name): raise ScriptError(...)
BranchFound(exists) == exists

ResumeBranchExists ==
    /\ pc = "r_exists"
    /\ calls' = Append(calls, "branch_exists")
    /\ \/ /\ BranchFound(world.localBranch)
          /\ Proceed("r_checkout")
       \/ /\ ~BranchFound(world.localBranch)
          /\ Raise("no_branch", "r_checkout")
    /\ UNCHANGED <<world, ci, action, pre, runVars, stable, failedStart, environ, answered, diffRead, buildVars>>

ResumeCheckout ==
    /\ Collab("r_checkout", "checkout_branch", "b_update", world)
    /\ UNCHANGED <<ci, action, pre, runVars, stable, failedStart, environ, answered, diffRead, buildVars>>

AfterFindPRAlwaysCreates(found) == "pr_create"

\* if not pr_data: pr_data = repository.create_release_pull_request(...)
AfterFindPR(found) == IF ~found THEN "pr_create" ELSE "g_poll"

ResumeFindPR ==
    /\ Collab("r_findpr", "find_release_pr", AfterFindPR(world.openPRs > 0), world)
    /\ UNCHANGED <<ci, action, pre, runVars, stable, failedStart, environ, answered, diffRead, buildVars>>

AfterFindReleaseAlwaysCreates(found, draft) == "render"

AfterFindReleaseKeepsAssets(found, draft) ==
    IF ~found THEN "render"
    ELSE IF ~draft THEN "r_confirm"
    ELSE "upload"

\* if not gh_release: ... elif not gh_release.draft: ...
AfterFindRelease(found, draft) ==
    IF ~found THEN "render"
    ELSE IF ~draft THEN "r_confirm"
    ELSE "r_delete"

FoundRelease(w) == Len(w.releases) > 0

ResumeFindRelease ==
    /\ Collab("r_findrel", "find_release",
              AfterFindRelease(FoundRelease(world),
                               FoundRelease(world) /\ world.releases[1].draft),
              world)
    /\ ghRelease' = IF error' = "none" /\ FoundRelease(world) THEN 1 ELSE ghRelease
    /\ UNCHANGED <<ci, action, pre, gateVars, diffShown, proceed, files, stable, failedStart, environ, answered, diffRead, buildVars>>

OverwriteConfirmedByDefault(answer) == Lower(answer) # "n"

\* if proceed.lower() != 'y': raise ScriptError('Aborting release')
OverwriteConfirmed(answer) == Lower(answer) = "y"

ResumeConfirm ==
    /\ pc = "r_confirm"
    /\ \E answer \in Answers :
        /\ proceed' = answer
        /\ \/ /\ OverwriteConfirmed(answer)
              /\ Proceed("r_delete")
           \/ /\ ~OverwriteConfirmed(answer)
              /\ Raise("aborting", "r_delete")
    /\ UNCHANGED <<world, ci, action, calls, pre, gateVars, diffShown, files,
                   ghRelease, stable, failedStart, environ, answered, diffRead, buildVars>>

\* delete_assets(gh_release)
ResumeDeleteAssets ==
    /\ Collab("r_delete", "delete_assets", "upload",
              SetAssets(world, ghRelease, NoAssets))
    /\ UNCHANGED <<ci, action, pre, runVars, stable, failedStart, environ, answered, diffRead, buildVars>>

\* ------------------------------------------------------------- outside
\* The operator publishes the draft on the hosting service.
ExternalPublish ==
    /\ pc = "idle"
    /\ \E i \in 1..Len(world.releases) :
        /\ world.releases[i].draft
        /\ world' = [world EXCEPT !.releases[i].draft = FALSE]
    /\ stable' = FALSE
    /\ UNCHANGED <<ci, action, pc, outcome, error, calls, pre, runVars, failedStart, environ, answered, diffRead, buildVars>>

\* The checks of the commit are run again.
ExternalCI ==
    /\ pc = "idle"
    /\ ci' \in CIStatuses \ {ci}
    /\ stable' = FALSE
    /\ UNCHANGED <<world, action, pc, outcome, error, calls, pre, runVars, failedStart, environ, answered, diffRead, buildVars>>

Next ==
    \/ Invoke
    \/ Exit
    \/ CancelClosePR
    \/ CancelRemoveRelease
    \/ CancelRemoveBranch
    \/ Finalize
    \/ BumpUpdateVersion
    \/ BumpReleaseNotes
    \/ BumpConfirm
    \/ BumpCommit
    \/ BumpPush
    \/ BumpCreateRepository
    \/ StartCreateBranch
    \/ CreatePullRequest
    \/ GatePoll
    \/ GateSleep
    \/ Download
    \/ RenderReleaseNotes
    \/ CreateRelease
    \/ UploadAssets
    \/ BuildWriteSha
    \/ BuildComposeImage
    \/ BuildTestsImage
    \/ BuildTagTests
    \/ ResumeBranchExists
    \/ ResumeCheckout
    \/ ResumeFindPR
    \/ ResumeFindRelease
    \/ ResumeConfirm
    \/ ResumeDeleteAssets
    \/ ReturnSuccess
    \/ ExternalPublish
    \/ ExternalCI

Spec == Init /\ [][Next]_vars

\* The process that runs the gate keeps running: a poll that is due is made, and
\* a sleep that has started ends.
FairSpec == Spec /\ WF_vars(GatePoll) /\ WF_vars(GateSleep)

\* ------------------------------------------------------------- properties
Called(op) == \E i \in 1..Len(calls) : calls[i] = op

WorkflowErrors == {"collaborator", "build_error", "no_branch", "ci_failure", "aborting"}

BuildSteps == {"write_git_sha", "build_compose", "build_tests", "tag_tests"}

BumpSteps == {"update_version", "push_branch_to_remote", "create_repository"}

\* The operations every complete run of the action invokes.
StepsOf(act) ==
    CASE act = "start" ->
            {"create_release_branch", "create_release_pull_request",
             "get_combined_status", "download_all", "render_release_notes",
             "create_release", "upload_assets"} \cup BumpSteps \cup BuildSteps
      [] act = "resume" ->
            {"branch_exists", "checkout_branch", "find_release_pr",
             "get_combined_status", "download_all", "find_release",
             "delete_assets", "upload_assets"} \cup BumpSteps \cup BuildSteps
      [] act = "cancel" ->
            {"close_release_pr", "remove_release", "remove_bump_branch"}
      [] OTHER -> {}

Affirmative == {"y", "Y"}

\* C1: in start, resume and cancel a raised workflow error ends the action at
\* once with outcome 1 (the process is at its end, so no later step's operation
\* is invoked), and outcome 0 is returned only with no error raised and every
\* step of the action invoked.
C1_StopsAtFirstFailure ==
    action \in {"start", "resume", "cancel"} =>
        /\ error \in WorkflowErrors => pc = "done" /\ outcome = 1
        /\ outcome = 0 =>
            /\ error = "none"
            /\ \A op \in StepsOf(action) : Called(op)

C1_Witness ==
    /\ action = "start"
    /\ pc = "done"
    /\ outcome = 1
    /\ error = "collaborator"
    /\ calls[Len(calls)] = "download_all"

GatePassed == polls > 0 /\ pc \notin {"g_poll", "g_sleep"} /\ error # "ci_failure"

\* C2: once the CI gate has returned success, the status its last poll read
\* holds no pending and no failed check: every check it lists is a success
\* (none at all included).
C2_SuccessOnlyWhenAllSucceeded ==
    GatePassed =>
        \A i \in 1..Len(status.statuses) : status.statuses[i] = "success"

C2_Witness ==
    /\ pc = "download"
    /\ polls = 2
    /\ Len(status.statuses) = 2
    /\ status.state = "success"

C4_ZeroChecksPassAtOnce ==
    (polls = 1 /\ status.total_count = 0) => GatePassed

C4_Witness ==
    /\ pc = "download"
    /\ polls = 1
    /\ status.total_count = 0
    /\ status.state = "pending"

\* C5: a resume run right after a successful resume, with nothing changed in
\* between, the operator confirming as before, the credentials present and no
\* collaborator failing, returns 0, creates no bump commit, no pull request and
\* no release record, and leaves the branch head, the single pull request, the
\* single release record and its assets as the first resume left them.
C5_ResumeIdempotent ==
    (/\ stable
     /\ action = "resume"
     /\ pc = "done"
     /\ error \notin {"collaborator", "build_error", "token"}
     /\ proceed \in Affirmative \cup {"unasked"})
        => /\ outcome = 0
           /\ ~Called("create_bump_commit")
           /\ ~Called("create_release_pull_request")
           /\ ~Called("create_release")
           /\ world.openPRs = 1
           /\ Len(world.releases) = 1
           /\ world = pre

C5_Witness ==
    /\ stable
    /\ action = "resume"
    /\ pc = "done"
    /\ outcome = 0
    /\ proceed = "y"

\* resume has looked the release up and found a public one.
FoundPublic ==
    /\ action = "resume"
    /\ Called("find_release")
    /\ calls[Len(calls)] = "find_release" => error # "collaborator"
    /\ FoundRelease(pre)
    /\ ~pre.releases[1].draft

\* C6: when resume finds a public release, no asset is deleted or uploaded and
\* no image is built before the operator has answered y or Y; on another answer
\* resume returns 1 and the release's assets are as they were.
C6_PublicReleaseNeedsConfirmation ==
    FoundPublic =>
        /\ proceed \notin Affirmative =>
            /\ ~Called("delete_assets")
            /\ ~Called("upload_assets")
            /\ \A op \in BuildSteps : ~Called(op)
            /\ world.releases = pre.releases
        /\ proceed \notin Affirmative \cup {"unasked"} =>
            /\ pc = "done"
            /\ outcome = 1

C6_Witness ==
    /\ FoundPublic
    /\ proceed = ""
    /\ pc = "done"
    /\ pre.releases[1].assets = AssetsOf(Keys)

\* The upload step of this run has completed.
UploadDone ==
    \E i \in 1..Len(calls) :
        /\ calls[i] = "upload_assets"
        /\ i < Len(calls) \/ error = "none"

\* C7: once the upload step of start or resume has completed, the release's
\* assets are exactly one copy of each file downloaded in this run; and resume
\* invokes delete_assets right before upload_assets.
C7_AssetsAreTheDownloadedSet ==
    /\ UploadDone =>
        /\ files = Keys
        /\ world.releases[ghRelease].assets = AssetsOf(files)
    /\ action = "resume" =>
        \A i \in 1..Len(calls) :
            calls[i] = "upload_assets" => (i > 1 /\ calls[i - 1] = "delete_assets")

C7_Witness ==
    /\ action = "resume"
    /\ UploadDone
    /\ FoundRelease(pre)
    /\ pre.releases[1].assets # NoAssets
    /\ pre.releases[1].assets # AssetsOf(Keys)

\* Nothing is left of the release: no open pull request, no release record, no
\* local or remote bump branch.
Cleared(w) ==
    /\ w.openPRs = 0
    /\ w.releases = <<>>
    /\ ~w.localBranch
    /\ ~w.remoteBranch

CancelOver == action = "cancel" /\ pc = "done" /\ error # "token"

C9_ResumeWithoutBranch ==
    (action = "resume" /\ ~pre.localBranch /\ error # "token") =>
        /\ pc \in {"r_exists", "done"}
        /\ pc = "done" =>
            /\ error = "no_branch"
            /\ outcome = 1
            /\ calls = <<"branch_exists">>
            /\ world = pre

C9_Witness ==
    /\ action = "resume"
    /\ pc = "done"
    /\ error = "no_branch"
    /\ pre.bintrayRepo
    /\ calls = <<"branch_exists">>

\* C10: after finalize has run with a draft release present, no release of the
\* version is a draft any more.
C10_FinalizePublishes ==
    (/\ action = "finalize"
     /\ pc = "done"
     /\ error # "token"
     /\ \E i \in 1..Len(pre.releases) : pre.releases[i].draft)
        => \A i \in 1..Len(world.releases) : ~world.releases[i].draft

\* C11: finalize ends by returning the failing outcome 1 to main, its
\* 'unsupported' condition caught by the action's handler, and it has changed
\* nothing.
C11_FinalizeReturnsFailure ==
    (action = "finalize" /\ pc = "done") =>
        /\ outcome = 1
        /\ world = pre

\* The durable actions of start, in the order of the code.
StartOrder ==
    <<"create_release_branch", "update_version", "create_bump_commit",
      "push_branch_to_remote", "create_repository", "create_release_pull_request",
      "get_combined_status", "download_all", "render_release_notes",
      "create_release", "upload_assets", "write_git_sha", "build_compose",
      "build_tests", "tag_tests">>

Rank(op) == CHOOSE i \in 1..Len(StartOrder) : StartOrder[i] = op

AllImages == {"docker/compose", "docker/compose-tests"}

\* C12: start invokes its operations in the fixed order branch, bump commit,
\* push, artifact repository, pull request, CI gate, download, draft, upload,
\* image build; the draft is created only after the gate returned success and
\* the download returned; when the gate raises on a CI failure start returns 1
\* and no release record exists; when start returns 0 the branch, the bump
\* commit, one pull request, one draft with the downloaded assets, the
\* artifact repository and both images exist.
C12_StartOrder ==
    action = "start" =>
        /\ \A i, j \in 1..Len(calls) : i < j => Rank(calls[i]) <= Rank(calls[j])
        /\ Called("create_release") => GatePassed /\ files = Keys
        /\ error = "ci_failure" => outcome = 1 /\ world.releases = <<>>
        /\ outcome = 0 =>
            /\ \A i \in 1..Len(StartOrder) : Called(StartOrder[i])
            /\ world.localBranch /\ world.remoteBranch /\ world.headBumped
            /\ world.pushed = world.commits
            /\ world.bintrayRepo
            /\ world.openPRs = 1
            /\ world.releases = <<[draft |-> TRUE, assets |-> AssetsOf(Keys)]>>
            /\ world.images = AllImages

C12_Witness ==
    /\ action = "start"
    /\ pc = "done"
    /\ error = "ci_failure"
    /\ polls = 2
    /\ world.openPRs = 1

\* The operation op was invoked in this run and did not raise.
Completed(op) ==
    \E i \in 1..Len(calls) :
        /\ calls[i] = op
        /\ i < Len(calls) \/ error = "none"

\* C13: a start that fails after it created the release branch leaves the
\* branch, the pushed branch, the artifact repository, the pull request and the
\* release record it created in place; and the resume that follows, with the
\* operator confirming, the credentials present and nothing failing any more
\* (no collaborator error, no CI failure), returns 0 with exactly one pull
\* request, exactly one release record holding one copy of each downloaded
\* file, and both images built.
C13_ResumeCompletesFailedStart ==
    /\ (action = "start" /\ pc = "done" /\ outcome = 1
            /\ Completed("create_release_branch")) =>
        /\ world.localBranch
        /\ Completed("push_branch_to_remote") => world.remoteBranch
        /\ Completed("create_repository") => world.bintrayRepo
        /\ Completed("create_release_pull_request") => world.openPRs = 1
        /\ Completed("create_release") => Len(world.releases) = 1
    /\ (failedStart /\ action = "resume" /\ pc = "done"
            /\ error \notin {"collaborator", "build_error", "token", "ci_failure"}
            /\ proceed \in Affirmative \cup {"unasked"}) =>
        /\ outcome = 0
        /\ world.localBranch /\ world.remoteBranch /\ world.headBumped
        /\ world.pushed = world.commits
        /\ world.bintrayRepo
        /\ world.openPRs = 1
        /\ Len(world.releases) = 1
        /\ world.releases[1].assets = AssetsOf(Keys)
        /\ world.images = AllImages

C13_Witness ==
    /\ failedStart
    /\ action = "resume"
    /\ pc = "done"
    /\ outcome = 0
    /\ pre.openPRs = 1
    /\ Len(pre.releases) = 1
    /\ pre.releases[1].assets # AssetsOf(Keys)
    /\ pre.images = {}

\* C14: in every reachable state the version has at most one open pull request
\* and at most one release record, and start creates the release branch only
\* when none existed.
C14_AtMostOneOfEach ==
    /\ world.openPRs <= 1
    /\ Len(world.releases) <= 1
    /\ (action = "start" /\ Completed("create_release_branch")) => ~pre.localBranch

C14_Witness ==
    /\ action = "resume"
    /\ pc = "done"
    /\ pre.openPRs = 1
    /\ pre.releases = <<>>
    /\ Completed("find_release_pr")
    /\ Completed("create_release")
    /\ world.openPRs = 1
    /\ Len(world.releases) = 1

\* C15: a process started with the code-hosting token or the artifact-hosting
\* token missing ends with outcome 1 before any step of the requested action:
\* no operation is invoked and nothing has changed, whichever action it is.
C15_TokensCheckedFirst ==
    (action # "none" /\ environ # Tokens) =>
        /\ pc = "done"
        /\ outcome = 1
        /\ calls = <<>>
        /\ world = pre
        /\ status = NoStatus /\ files = {} /\ proceed = "unasked"

C15_Witness ==
    /\ action = "cancel"
    /\ environ = {"GITHUB_TOKEN"}
    /\ pc = "done"
    /\ outcome = 1
    /\ world.openPRs = 1
    /\ Len(world.releases) = 1

\* C16: cancel leaves the artifact-hosting repository unchanged: in every run
\* of cancel, successful or failed, no create or delete operation of the
\* artifact-hosting collaborator is invoked, and a repository that existed
\* before cancel still exists during and after it.
C16_CancelKeepsArtifactRepository ==
    action = "cancel" =>
        /\ world.bintrayRepo = pre.bintrayRepo
        /\ ~Called("create_repository")
        /\ ~Called("delete_repository")

C16_Witness ==
    /\ action = "cancel"
    /\ pc = "done"
    /\ outcome = 0
    /\ pre.bintrayRepo
    /\ pre.localBranch
    /\ Called("remove_bump_branch")
    /\ Cleared(world)
    /\ world.bintrayRepo

GateRunning == pc \in {"g_poll", "g_sleep"}

C17_GateRunsWhilePending ==
    polls > 0 =>
        /\ (status.state = "pending" /\ status.total_count > 0) =>
               /\ GateRunning
               /\ outcome = -1
               /\ error = "none"
        /\ status.state \in {"success", "failure"} => ~GateRunning

\* C17: the CI gate has no timeout: as long as the last poll read the combined
\* state pending with at least one check, the gate is still running, having
\* neither returned nor raised, whatever the number of polls made; a poll that
\* reads success or failure ends the gate at that poll, and a poll that is due
\* while the combined state is success or failure leads to the gate's end.
C17_GateHasNoTimeout ==
    /\ []C17_GateRunsWhilePending
    /\ (pc = "g_poll" /\ "pending" \notin AggregateStates(ci)) ~> ~GateRunning

C17_Witness ==
    /\ polls >= 2
    /\ pc = "g_sleep"
    /\ status.state = "pending"
    /\ status.total_count > 0
    /\ outcome = -1
    /\ error = "none"

CommitFailed ==
    error = "collaborator" /\ calls[Len(calls)] = "create_bump_commit"

\* C18: in the bump-commit step no commit is created and no push happens before
\* the operator has answered affirmatively; after any other answer the diff has
\* been displayed again and the question is asked again, with nothing committed
\* or pushed; once the answer is affirmative a bump commit is created exactly
\* when the working diff read then is non-empty, and the push follows in both
\* cases (unless the commit itself failed).
C18_CommitNeedsConfirmation ==
    /\ (Called("create_bump_commit") \/ Called("push_branch_to_remote"))
           => answered = "yes"
    /\ answered = "no" =>
           /\ pc = "b_confirm"
           /\ diffShown >= 1
           /\ diffRead = "unread"
    /\ diffRead # "unread" =>
           /\ answered = "yes"
           /\ Called("create_bump_commit") <=> diffRead = "changes"
           /\ (pc # "b_push" /\ ~CommitFailed) => Called("push_branch_to_remote")

C18_Witness ==
    /\ action = "resume"
    /\ answered = "yes"
    /\ diffRead = "empty"
    /\ ~Called("create_bump_commit")
    /\ Completed("push_branch_to_remote")
    /\ world.commits = pre.commits

C19_ErrorEventEndsTheAction ==
    /\ "error" \in chunk =>
           /\ pc = "done"
           /\ error = "build_error"
           /\ outcome = 1
           /\ ~Called("tag_tests")
           /\ "docker/compose-tests" \in world.images
                  => "docker/compose-tests" \in pre.images
    /\ Called("tag_tests") =>
           /\ Completed("build_compose")
           /\ Completed("build_tests")
           /\ "error" \notin chunk
           /\ error # "build_error"

\* C19: once a build event carrying an error field has been consumed, in either
\* image build, the action is at its end with a build error raised and outcome
\* 1, no container was created, committed or tagged, and no further build event
\* is consumed and no further operation invoked; the compose-tests tag is
\* created only after both builds ran to the end of their events without an
\* error event.
C19_BuildErrorIsFatal ==
    /\ []C19_ErrorEventEndsTheAction
    /\ [][("error" \in chunk) =>
             \/ pc' = "idle"
             \/ chunk' = chunk /\ consumed' = consumed /\ calls' = calls]_vars

C19_Witness ==
    /\ action = "start"
    /\ pc = "done"
    /\ outcome = 1
    /\ "error" \in chunk
    /\ consumed = 2
    /\ calls[Len(calls)] = "build_tests"
    /\ "docker/compose" \in world.images

Before(a, b) ==
    \E i, j \in 1..Len(calls) : i < j /\ calls[i] = a /\ calls[j] = b

FailedAt(op) == error = "collaborator" /\ calls[Len(calls)] = op

\* C20: a resume that looks up the pull request has pushed the branch and then
\* invoked create_repository before the lookup, also with an empty working
\* diff and a repository that already existed; a push or a create_repository
\* that fails ends resume with outcome 1 with no pull-request lookup, no CI
\* poll and no change to the pull requests or the release records.
C20_ResumePushesAndProvisionsFirst ==
    action = "resume" =>
        /\ Called("find_release_pr") =>
               /\ Before("push_branch_to_remote", "create_repository")
               /\ Before("create_repository", "find_release_pr")
               /\ world.remoteBranch /\ world.bintrayRepo
        /\ pc = "b_bintray" => Completed("push_branch_to_remote")
        /\ (FailedAt("push_branch_to_remote") \/ FailedAt("create_repository")) =>
               /\ pc = "done"
               /\ outcome = 1
               /\ ~Called("find_release_pr")
               /\ ~Called("get_combined_status")
               /\ world.openPRs = pre.openPRs
               /\ world.releases = pre.releases

C20_Witness ==
    /\ action = "resume"
    /\ pre.bintrayRepo
    /\ pre.remoteBranch
    /\ pre.pushed = pre.commits
    /\ diffRead = "empty"
    /\ Called("find_release_pr")
    /\ Before("push_branch_to_remote", "create_repository")
====
